---- MODULE Spec2Model ----
\* HmSearch (src/hmsearch.cc): a LevelDB-backed index of fixed-width hashes
\* searched by Hamming distance.  Bytes are integers 0..255, a hash, a store
\* key and a store value are sequences of bytes.
EXTENDS Integers, Sequences, FiniteSets, TLC

VARIABLES
    disk,       \* the LevelDB database at `path`: [exists, kv]
    hm,         \* the HmSearchImpl object returned by the last open()
    deletes,    \* how often `delete _db` ran on the DB object of the last open()
    ret,        \* what the last call returned
    error_msg,  \* *error_msg after the last call
    result,     \* the caller's LookupResultList after the last call
    call,       \* the last call and its arguments
    inserted,   \* the hashes whose insert() returned true, in order
    made,       \* the arguments of the init() that created the database
    phase       \* "new": never opened; "first": opened once; "again": opened
                \* again with every insert made before; "mixed": otherwise

vars == <<disk, hm, deletes, ret, error_msg, result, call, inserted, made, phase>>

\* ---------------------------------------------------------------- bounds
MaxInserts == 3

\* ------------------------------------------------------- bytes and bits
RECURSIVE BitAnd(_, _)
BitAnd(x, y) ==
    IF x = 0 \/ y = 0 THEN 0
    ELSE (x % 2) * (y % 2) + 2 * BitAnd(x \div 2, y \div 2)

RECURSIVE BitXor(_, _)
BitXor(x, y) ==
    IF x = 0 /\ y = 0 THEN 0
    ELSE ((x + y) % 2) + 2 * BitXor(x \div 2, y \div 2)

\* (uint8_t) v
U8(v) == v % 256

\* hash[byte] of a std::basic_string<uint8_t>: hash[size()] is the terminator
HashAt(hash, byte) == IF byte < Len(hash) THEN hash[byte + 1] ELSE 0

one_bits ==
    << 0, 1, 1, 2, 1, 2, 2, 3, 1, 2, 2, 3, 2, 3, 3, 4,
       1, 2, 2, 3, 2, 3, 3, 4, 2, 3, 3, 4, 3, 4, 4, 5,
       1, 2, 2, 3, 2, 3, 3, 4, 2, 3, 3, 4, 3, 4, 4, 5,
       2, 3, 3, 4, 3, 4, 4, 5, 3, 4, 4, 5, 4, 5, 5, 6,
       1, 2, 2, 3, 2, 3, 3, 4, 2, 3, 3, 4, 3, 4, 4, 5,
       2, 3, 3, 4, 3, 4, 4, 5, 3, 4, 4, 5, 4, 5, 5, 6,
       2, 3, 3, 4, 3, 4, 4, 5, 3, 4, 4, 5, 4, 5, 5, 6,
       3, 4, 4, 5, 4, 5, 5, 6, 4, 5, 5, 6, 5, 6, 6, 7,
       1, 2, 2, 3, 2, 3, 3, 4, 2, 3, 3, 4, 3, 4, 4, 5,
       2, 3, 3, 4, 3, 4, 4, 5, 3, 4, 4, 5, 4, 5, 5, 6,
       2, 3, 3, 4, 3, 4, 4, 5, 3, 4, 4, 5, 4, 5, 5, 6,
       3, 4, 4, 5, 4, 5, 5, 6, 4, 5, 5, 6, 5, 6, 6, 7,
       2, 3, 3, 4, 3, 4, 4, 5, 3, 4, 4, 5, 4, 5, 5, 6,
       3, 4, 4, 5, 4, 5, 5, 6, 4, 5, 5, 6, 5, 6, 6, 7,
       3, 4, 4, 5, 4, 5, 5, 6, 4, 5, 5, 6, 5, 6, 6, 7,
       4, 5, 5, 6, 5, 6, 6, 7, 5, 6, 6, 7, 6, 7, 7, 8 >>

\* ------------------------------------------------ decimal text of numbers
\* snprintf(buf, sizeof(buf), "%u", n): the ASCII decimal digits of n
RECURSIVE FormatU(_)
FormatU(n) ==
    IF n < 10 THEN <<48 + n>>
    ELSE Append(FormatU(n \div 10), 48 + (n % 10))

\* strtoul with base 8: it stops at the digits 8 and 9
RECURSIVE StrToULOctal(_, _)
StrToULOctal(v, acc) ==
    IF v = <<>> \/ Head(v) < 48 \/ Head(v) > 55 THEN acc
    ELSE StrToULOctal(Tail(v), acc * 8 + (Head(v) - 48))

\* strtoul(v.c_str(), NULL, 10): the leading decimal digits of v, 0 if none
RECURSIVE StrToUL(_, _)
StrToUL(v, acc) ==
    IF v = <<>> \/ Head(v) < 48 \/ Head(v) > 57 THEN acc
    ELSE StrToUL(Tail(v), acc * 10 + (Head(v) - 48))

\* ------------------------------------------------------------ the store
KeyHB == <<95, 104, 98>>     \* "_hb"
KeyME == <<95, 109, 101>>    \* "_me"

NoKV == [key \in {} |-> <<>>]
NoDisk == [exists |-> FALSE, kv |-> NoKV]

\* leveldb::DB::Put: the value of `key` becomes `value`
DBPut(kv, key, value) ==
    [x \in (DOMAIN kv) \cup {key} |-> IF x = key THEN value ELSE kv[x]]

\* leveldb::DB::Get: status and value
DBGet(kv, key) ==
    IF key \in DOMAIN kv THEN [ok |-> TRUE, value |-> kv[key]]
    ELSE [ok |-> FALSE, value |-> <<>>]

\* ------------------------------------------ HmSearchImpl's derived fields
\* _hash_bytes rounded up once too often
_hash_bytes_plus1(hash_bits) == hash_bits \div 8 + 1

_hash_bytes(hash_bits) == (hash_bits + 7) \div 8
_partitions(max_error) == (max_error + 3) \div 2
_partition_bits(hash_bits, max_error) ==
    (hash_bits + _partitions(max_error) - 1) \div _partitions(max_error)
_partition_bytes(hash_bits, max_error) ==
    (_partition_bits(hash_bits, max_error) + 7) \div 8 + 1

\* ---------------------------------------------------------- the key codec
\* psize without the cut at the end of the hash
PSizeNoCap(hash_bits, max_error, partition) ==
    _partition_bits(hash_bits, max_error)

\* psize of get_partition_key
PSize(hash_bits, max_error, partition) ==
    LET rest == hash_bits - partition * _partition_bits(hash_bits, max_error)
    IN  IF rest > _partition_bits(hash_bits, max_error)
        THEN _partition_bits(hash_bits, max_error) ELSE rest

\* KeyBytes with the mask left at the low end of the byte
RECURSIVE KeyBytesLowMask(_, _, _, _, _)
KeyBytesLowMask(hash, i, n, hash_bit, bits_left) ==
    IF i >= n THEN <<>>
    ELSE LET byte == hash_bit \div 8
             bit == hash_bit % 8
             bits == IF 8 - bit > bits_left THEN bits_left ELSE 8 - bit
             mask == IF bits < 0 THEN 0 ELSE (2 ^ bits) - 1
         IN  <<U8(BitAnd(HashAt(hash, byte), mask))>>
                 \o KeyBytesLowMask(hash, i + 1, n, hash_bit + bits,
                                    bits_left - bits)

\* the loop of get_partition_key from iteration i on: key bytes i+2 ...
\* With psize < 0 the first iteration has bits < 0 and `1 << bits` is
\* undefined; whatever int it yields, `<< (8 - bit - bits)` then shifts it by
\* 8..31 places, which leaves the low byte, the only part `hash[byte] &`
\* keeps, zero.  A shift of 32 places or more is not modelled.
RECURSIVE KeyBytes(_, _, _, _, _)
KeyBytes(hash, i, n, hash_bit, bits_left) ==
    IF i >= n THEN <<>>
    ELSE LET byte == hash_bit \div 8
             bit == hash_bit % 8
             bits == IF 8 - bit > bits_left THEN bits_left ELSE 8 - bit
             mask == IF bits < 0 /\ 8 - bit - bits >= 8 /\ 8 - bit - bits < 32
                     THEN 0
                     ELSE ((2 ^ bits) - 1) * (2 ^ (8 - bit - bits))
         IN  <<U8(BitAnd(HashAt(hash, byte), mask))>>
                 \o KeyBytes(hash, i + 1, n, hash_bit + bits, bits_left - bits)

\* get_partition_key numbering the partitions from 1
get_partition_key_from1(hash_bits, max_error, hash, partition) ==
    <<80, U8(partition + 1)>>
        \o KeyBytes(hash, 0, _partition_bytes(hash_bits, max_error),
                    partition * _partition_bits(hash_bits, max_error),
                    PSize(hash_bits, max_error, partition))

get_partition_key(hash_bits, max_error, hash, partition) ==
    <<80, U8(partition)>>
        \o KeyBytes(hash, 0, _partition_bytes(hash_bits, max_error),
                    partition * _partition_bits(hash_bits, max_error),
                    PSize(hash_bits, max_error, partition))

\* ------------------------------------------------------ candidate map
\* std::map<hash_string, Candidate>: entries [hash, matches, first_match,
\* second_match] kept in ascending key order, one entry per key.

\* operator< of hash_string
RECURSIVE HashLess(_, _)
HashLess(a, b) ==
    IF b = <<>> THEN FALSE
    ELSE IF a = <<>> THEN TRUE
    ELSE IF Head(a) # Head(b) THEN Head(a) < Head(b)
    ELSE HashLess(Tail(a), Tail(b))

\* a new entry put at its place in key order
RECURSIVE MapInsert(_, _)
MapInsert(candidates, entry) ==
    IF candidates = <<>> THEN <<entry>>
    ELSE IF HashLess(entry.hash, Head(candidates).hash)
         THEN <<entry>> \o candidates
         ELSE <<Head(candidates)>> \o MapInsert(Tail(candidates), entry)

\* Bump without the find: every observation makes an entry of its own
BumpNoFind(candidates, match, hash) ==
    MapInsert(candidates,
              [hash |-> hash, matches |-> 1,
               first_match |-> match, second_match |-> 0])

\* one iteration of add_hash_candidates' loop: candidates[hash] is found or
\* default-constructed, then counted
Bump(candidates, match, hash) ==
    IF \E n \in 1..Len(candidates) : candidates[n].hash = hash
    THEN [n \in 1..Len(candidates) |->
            IF candidates[n].hash # hash THEN candidates[n]
            ELSE LET cand == candidates[n]
                 IN  [hash |-> hash,
                      matches |-> cand.matches + 1,
                      first_match |-> cand.first_match,
                      second_match |-> IF cand.matches + 1 = 2 THEN match
                                       ELSE cand.second_match]]
    ELSE MapInsert(candidates,
                   [hash |-> hash, matches |-> 1,
                    first_match |-> match, second_match |-> 0])

RECURSIVE add_hash_candidates(_, _, _, _)
add_hash_candidates(candidates, match, hashes, hash_bytes) ==
    IF hashes = <<>> THEN candidates
    ELSE add_hash_candidates(
             Bump(candidates, match, SubSeq(hashes, 1, hash_bytes)),
             match, SubSeq(hashes, hash_bytes + 1, Len(hashes)), hash_bytes)

\* --------------------------------------------------------- the reader
\* VariantKey counting the bit from the low end of the byte
VariantKeyLSB(key, pbit, pbyte) ==
    LET flip == U8(2 ^ (pbit % 8))
        at == pbit \div 8 - pbyte + 2
    IN  [key EXCEPT ![at + 1] = BitXor(@, flip)]

\* the key of the 1-variant probe for hash bit pbit of partition i
VariantKey(key, pbit, pbyte) ==
    LET flip == U8(2 ^ (7 - (pbit % 8)))
        at == pbit \div 8 - pbyte + 2
    IN  [key EXCEPT ![at + 1] = BitXor(@, flip)]

\* the Gets of get_candidates for partition i, in order: [key, match]
PartitionProbes(hash_bits, max_error, query, i) ==
    LET key == get_partition_key(hash_bits, max_error, query, i)
        bits == PSize(hash_bits, max_error, i)
        first == i * _partition_bits(hash_bits, max_error)
        pbyte == first \div 8
    IN  <<[key |-> key, match |-> 0]>>
            \o [j \in 1..bits |->
                  [key |-> VariantKey(key, first + j - 1, pbyte), match |-> 1]]

RECURSIVE Probes(_, _, _, _)
Probes(hash_bits, max_error, query, i) ==
    IF i >= _partitions(max_error) THEN <<>>
    ELSE PartitionProbes(hash_bits, max_error, query, i)
             \o Probes(hash_bits, max_error, query, i + 1)

RECURSIVE Gather(_, _, _, _)
Gather(kv, probes, candidates, hash_bytes) ==
    IF probes = <<>> THEN candidates
    ELSE LET status == DBGet(kv, Head(probes).key)
         IN  Gather(kv, Tail(probes),
                    IF status.ok
                    THEN add_hash_candidates(candidates, Head(probes).match,
                                             status.value, hash_bytes)
                    ELSE candidates,
                    hash_bytes)

get_candidates(kv, hash_bits, max_error, query) ==
    Gather(kv, Probes(hash_bits, max_error, query, 0), <<>>,
           _hash_bytes(hash_bits))

\* valid_candidate looking only at the first match of a twice-seen hash
valid_candidate_first(max_error, candidate) ==
    IF max_error % 2 = 1
    THEN ~ (candidate.matches < 3
            /\ (candidate.matches = 1 \/ candidate.first_match # 0))
    ELSE ~ (candidate.matches < 2 /\ candidate.first_match # 0)

valid_candidate(max_error, candidate) ==
    IF max_error % 2 = 1
    THEN ~ (candidate.matches < 3
            /\ (candidate.matches = 1
                \/ (candidate.first_match # 0 /\ candidate.second_match # 0)))
    ELSE ~ (candidate.matches < 2 /\ candidate.first_match # 0)

\* hamming_distance counting the common bits instead of the differing ones
RECURSIVE hamming_distance_and(_, _)
hamming_distance_and(query, hash) ==
    IF query = <<>> THEN 0
    ELSE one_bits[BitAnd(Head(query), HashAt(hash, 0)) + 1]
             + hamming_distance_and(Tail(query), Tail(hash))

RECURSIVE hamming_distance(_, _)
hamming_distance(query, hash) ==
    IF query = <<>> THEN 0
    ELSE one_bits[BitXor(Head(query), HashAt(hash, 0)) + 1]
             + hamming_distance(Tail(query), Tail(hash))

\* Keep taking a cap of 0 for "no cap"
KeepPositiveCap(max_error, reduced_error, distance) ==
    distance <= max_error /\ (reduced_error <= 0 \/ distance <= reduced_error)

\* the filter of lookup's loop body
Keep(max_error, reduced_error, distance) ==
    distance <= max_error /\ (reduced_error < 0 \/ distance <= reduced_error)

\* lookup's loop over the candidate map: what it pushes onto `result`
RECURSIVE Matches(_, _, _, _)
Matches(candidates, max_error, reduced_error, query) ==
    IF candidates = <<>> THEN <<>>
    ELSE LET c == Head(candidates)
             distance == hamming_distance(query, c.hash)
         IN  (IF valid_candidate(max_error, c)
                 /\ Keep(max_error, reduced_error, distance)
              THEN <<[hash |-> c.hash, distance |-> distance]>>
              ELSE <<>>)
                 \o Matches(Tail(candidates), max_error, reduced_error, query)

Found(kv, hash_bits, max_error, query, reduced_error) ==
    Matches(get_candidates(kv, hash_bits, max_error, query),
            max_error, reduced_error, query)

\* ------------------------------------------------------------- inputs
InitInputs == {<<0, 2>>, <<12, 2>>, <<8, 0>>, <<8, 8>>, <<520, 519>>,
               <<8, 2>>, <<8, 3>>, <<16, 3>>, <<520, 16>>}
HashInputs == {<<165>>, <<164>>, <<229>>, <<0, 0>>, <<0, 1>>}
QueryInputs == {<<165>>, <<167>>, <<0, 1>>}
CapInputs == {-1, 0, 1}
ResultInputs == {<<>>, <<[hash |-> <<165>>, distance |-> 0]>>}

\* ------------------------------------------------------------ messages
InvalidHashBits == "invalid hash_bits value"
InvalidMaxError == "invalid max_error value"
InvalidHashLength == "incorrect hash length"
Closed == "database is closed"
StorageExists == "Invalid argument: exists (error_if_exists is true)"
StorageMissing == "Invalid argument: does not exist (create_if_missing is false)"
NotFound == "NotFound: "

\* -------------------------------------------------------------- state
NoHandle == [live |-> FALSE, _db |-> FALSE, _hash_bits |-> 0, _max_error |-> 0]

Call(op) ==
    [op |-> op, hash_bits |-> 0, max_error |-> 0, hash |-> <<>>,
     reduced_error |-> -1, result0 |-> <<>>, gets |-> 0, puts |-> 0,
     fault |-> -1]

Init ==
    /\ disk = NoDisk
    /\ hm = NoHandle
    /\ deletes = 0
    /\ ret = TRUE
    /\ error_msg = ""
    /\ result = <<>>
    /\ call = Call("none")
    /\ inserted = <<>>
    /\ made = [hash_bits |-> 0, max_error |-> 0]
    /\ phase = "new"

\* leveldb::DB::Open(options, path, &db): the status it returns
DBOpen(d, create_if_missing, error_if_exists) ==
    IF d.exists THEN (IF error_if_exists THEN StorageExists ELSE "")
    ELSE (IF create_if_missing THEN "" ELSE StorageMissing)

\* ----------------------------------------------------- HmSearch::init
InitBitsOK(hash_bits) == ~ (hash_bits = 0 \/ hash_bits % 8 # 0)

\* the max_error test without the limit of 518
InitErrorOKNoLimit(hash_bits, max_error) ==
    ~ (max_error = 0 \/ max_error >= hash_bits)

InitErrorOK(hash_bits, max_error) ==
    ~ (max_error = 0 \/ max_error >= hash_bits \/ max_error > 518)

init(hash_bits, max_error) ==
    /\ call' = [Call("init") EXCEPT !.hash_bits = hash_bits,
                                    !.max_error = max_error,
                                    !.puts = IF InitBitsOK(hash_bits)
                                                /\ InitErrorOK(hash_bits, max_error)
                                                /\ ~ disk.exists
                                             THEN 2 ELSE 0]
    /\ result' = <<>>
    /\ UNCHANGED <<hm, deletes, inserted, phase>>
    /\ IF ~ InitBitsOK(hash_bits)
       THEN /\ ret' = FALSE
            /\ error_msg' = InvalidHashBits
            /\ UNCHANGED <<disk, made>>
       ELSE IF ~ InitErrorOK(hash_bits, max_error)
       THEN /\ ret' = FALSE
            /\ error_msg' = InvalidMaxError
            /\ UNCHANGED <<disk, made>>
       ELSE IF DBOpen(disk, TRUE, TRUE) # ""
       THEN /\ ret' = FALSE
            /\ error_msg' = DBOpen(disk, TRUE, TRUE)
            /\ UNCHANGED <<disk, made>>
       ELSE /\ ret' = TRUE
            /\ error_msg' = ""
            /\ disk' = [exists |-> TRUE,
                        kv |-> DBPut(DBPut(NoKV, KeyHB, FormatU(hash_bits)),
                                     KeyME, FormatU(max_error))]
            /\ made' = [hash_bits |-> hash_bits, max_error |-> max_error]

\* ----------------------------------------------------- HmSearch::open
\* One handle is held at a time: open is called when no DB object is open.
open ==
    /\ ~ hm._db
    /\ call' = [Call("open") EXCEPT !.gets = IF disk.exists THEN 2 ELSE 0]
    /\ result' = <<>>
    /\ UNCHANGED <<disk, inserted, made>>
    /\ LET hb == DBGet(disk.kv, KeyHB)
           me == DBGet(disk.kv, KeyME)
           hash_bits == StrToUL(hb.value, 0)
           max_error == StrToUL(me.value, 0)
       IN  IF DBOpen(disk, FALSE, FALSE) # ""
           THEN /\ ret' = FALSE
                /\ error_msg' = DBOpen(disk, FALSE, FALSE)
                /\ UNCHANGED <<hm, deletes, phase>>
           ELSE IF ~ hb.ok \/ hash_bits = 0
           THEN /\ ret' = FALSE
                /\ error_msg' = IF hb.ok THEN "OK" ELSE NotFound
                /\ UNCHANGED <<hm, deletes, phase>>
           ELSE IF ~ me.ok \/ max_error = 0
           THEN /\ ret' = FALSE
                /\ error_msg' = IF me.ok THEN "OK" ELSE NotFound
                /\ UNCHANGED <<hm, deletes, phase>>
           ELSE /\ ret' = TRUE
                /\ error_msg' = ""
                /\ hm' = [live |-> TRUE, _db |-> TRUE,
                          _hash_bits |-> hash_bits, _max_error |-> max_error]
                /\ deletes' = 0
                /\ phase' = IF phase = "new" THEN "first"
                            ELSE IF phase = "first" THEN "again" ELSE phase

\* ------------------------------------------------ HmSearchImpl::insert
\* the loop of insert from partition i on: one Put per partition
RECURSIVE PutPartitions(_, _, _, _, _)
PutPartitions(kv, hash_bits, max_error, hash, i) ==
    IF i >= _partitions(max_error) THEN kv
    ELSE PutPartitions(
             DBPut(kv, get_partition_key(hash_bits, max_error, hash, i), hash),
             hash_bits, max_error, hash, i + 1)

insert(hash) ==
    /\ hm.live
    /\ (Len(hash) = _hash_bytes(hm._hash_bits) /\ hm._db)
           => Len(inserted) < MaxInserts
    /\ result' = <<>>
    /\ UNCHANGED <<hm, deletes, made>>
    /\ IF Len(hash) # _hash_bytes(hm._hash_bits)
       THEN /\ ret' = FALSE
            /\ error_msg' = InvalidHashLength
            /\ call' = [Call("insert") EXCEPT !.hash = hash]
            /\ UNCHANGED <<disk, inserted, phase>>
       ELSE IF ~ hm._db
       THEN /\ ret' = FALSE
            /\ error_msg' = Closed
            /\ call' = [Call("insert") EXCEPT !.hash = hash]
            /\ UNCHANGED <<disk, inserted, phase>>
       ELSE /\ ret' = TRUE
            /\ error_msg' = ""
            /\ call' = [Call("insert") EXCEPT
                            !.hash = hash,
                            !.puts = _partitions(hm._max_error)]
            /\ disk' = [disk EXCEPT !.kv =
                            PutPartitions(disk.kv, hm._hash_bits, hm._max_error,
                                          hash, 0)]
            /\ inserted' = Append(inserted, hash)
            /\ phase' = IF phase = "again" THEN "mixed" ELSE phase

\* ------------------------------------------------ HmSearchImpl::lookup
\* lookup that also stores the query under its partition keys
lookup_storing(query, result0, reduced_error) ==
    /\ hm.live
    /\ UNCHANGED <<hm, deletes, inserted, made, phase>>
    /\ call' = [Call("lookup") EXCEPT
                    !.hash = query, !.result0 = result0,
                    !.reduced_error = reduced_error,
                    !.gets = IF Len(query) = _hash_bytes(hm._hash_bits) /\ hm._db
                             THEN Len(Probes(hm._hash_bits, hm._max_error,
                                             query, 0))
                             ELSE 0]
    /\ IF Len(query) # _hash_bytes(hm._hash_bits) \/ ~ hm._db
       THEN /\ ret' = FALSE
            /\ error_msg' = IF Len(query) # _hash_bytes(hm._hash_bits)
                            THEN InvalidHashLength ELSE Closed
            /\ result' = result0
            /\ disk' = disk
       ELSE /\ ret' = TRUE
            /\ error_msg' = ""
            /\ result' = result0 \o Found(disk.kv, hm._hash_bits, hm._max_error,
                                          query, reduced_error)
            /\ disk' = [disk EXCEPT !.kv =
                            PutPartitions(disk.kv, hm._hash_bits, hm._max_error,
                                          query, 0)]

lookup(query, result0, reduced_error) ==
    /\ hm.live
    /\ UNCHANGED <<disk, hm, deletes, inserted, made, phase>>
    /\ IF Len(query) # _hash_bytes(hm._hash_bits)
       THEN /\ ret' = FALSE
            /\ error_msg' = InvalidHashLength
            /\ result' = result0
            /\ call' = [Call("lookup") EXCEPT !.hash = query,
                            !.result0 = result0,
                            !.reduced_error = reduced_error]
       ELSE IF ~ hm._db
       THEN /\ ret' = FALSE
            /\ error_msg' = Closed
            /\ result' = result0
            /\ call' = [Call("lookup") EXCEPT !.hash = query,
                            !.result0 = result0,
                            !.reduced_error = reduced_error]
       ELSE /\ ret' = TRUE
            /\ error_msg' = ""
            /\ result' = result0 \o Found(disk.kv, hm._hash_bits, hm._max_error,
                                          query, reduced_error)
            /\ call' = [Call("lookup") EXCEPT !.hash = query,
                            !.result0 = result0,
                            !.reduced_error = reduced_error,
                            !.gets = Len(Probes(hm._hash_bits, hm._max_error,
                                                query, 0))]

\* ------------------------------------------------- HmSearchImpl::close
\* the body of close(): the handle and the delete count after it
\* close() that leaves _db dangling
CloseHandleKeep(h) == h

CloseHandle(h) == [h EXCEPT !._db = FALSE]
CloseDeletes(h, n) == IF h._db THEN n + 1 ELSE n

close ==
    /\ hm.live
    /\ call' = Call("close")
    /\ ret' = TRUE
    /\ error_msg' = ""
    /\ result' = <<>>
    /\ hm' = CloseHandle(hm)
    /\ deletes' = CloseDeletes(hm, deletes)
    /\ UNCHANGED <<disk, inserted, made, phase>>

\* ~HmSearchImpl: close(), then the object is gone
destroy ==
    /\ hm.live
    /\ call' = Call("destroy")
    /\ ret' = TRUE
    /\ error_msg' = ""
    /\ result' = <<>>
    /\ hm' = NoHandle
    /\ deletes' = CloseDeletes(hm, deletes)
    /\ UNCHANGED <<disk, inserted, made, phase>>

Next ==
    \/ \E args \in InitInputs : init(args[1], args[2])
    \/ open
    \/ \E hash \in HashInputs : insert(hash)
    \/ \E query \in QueryInputs, result0 \in ResultInputs,
          reduced_error \in CapInputs :
           lookup(query, result0, reduced_error)
    \/ close
    \/ destroy

Spec == Init /\ [][Next]_vars

TypeOK ==
    /\ disk.exists \in BOOLEAN
    /\ hm.live \in BOOLEAN
    /\ deletes \in 0..1
    /\ Len(inserted) <= MaxInserts
    /\ phase \in {"new", "first", "again", "mixed"}

\* ===================================================================
\* The store with faults: a Put or a Get may return an I/O error
\* ===================================================================
IOError == "IO error: "

IOInputs == {<<8, 2>>, <<16, 3>>}
IOHashInputs == {<<165>>, <<229>>, <<0, 1>>}
IOQueryInputs == {<<165>>, <<167>>}

\* a store made by init(hash_bits, max_error) and a handle opened on it
InitIO ==
    \E args \in IOInputs :
        /\ disk = [exists |-> TRUE,
                   kv |-> DBPut(DBPut(NoKV, KeyHB, FormatU(args[1])),
                                KeyME, FormatU(args[2]))]
        /\ hm = [live |-> TRUE, _db |-> TRUE,
                 _hash_bits |-> args[1], _max_error |-> args[2]]
        /\ deletes = 0
        /\ ret = TRUE
        /\ error_msg = ""
        /\ result = <<>>
        /\ call = [Call("open") EXCEPT !.gets = 2]
        /\ inserted = <<>>
        /\ made = [hash_bits |-> args[1], max_error |-> args[2]]
        /\ phase = "first"

\* the loop of insert going on after a failed Put
RECURSIVE PutPartitionsIOContinue(_, _, _, _, _, _)
PutPartitionsIOContinue(kv, hash_bits, max_error, hash, i, fail) ==
    IF i >= _partitions(max_error) THEN kv
    ELSE PutPartitionsIOContinue(
             IF i = fail THEN kv
             ELSE DBPut(kv, get_partition_key(hash_bits, max_error, hash, i),
                        hash),
             hash_bits, max_error, hash, i + 1, fail)

\* the loop of insert from partition i on, left at the Put of partition
\* `fail` (the return in `if (!status.ok())`); fail < 0: no Put fails
RECURSIVE PutPartitionsIO(_, _, _, _, _, _)
PutPartitionsIO(kv, hash_bits, max_error, hash, i, fail) ==
    IF i >= _partitions(max_error) \/ i = fail THEN kv
    ELSE PutPartitionsIO(
             DBPut(kv, get_partition_key(hash_bits, max_error, hash, i), hash),
             hash_bits, max_error, hash, i + 1, fail)

\* insert(hash) on a store whose Put of partition `fail` returns an error
insert_io(hash, fail) ==
    /\ hm.live
    /\ (Len(hash) = _hash_bytes(hm._hash_bits) /\ hm._db /\ fail < 0)
           => Len(inserted) < MaxInserts
    /\ result' = <<>>
    /\ UNCHANGED <<hm, deletes, made, phase>>
    /\ IF Len(hash) # _hash_bytes(hm._hash_bits)
       THEN /\ ret' = FALSE
            /\ error_msg' = InvalidHashLength
            /\ call' = [Call("insert") EXCEPT !.hash = hash]
            /\ UNCHANGED <<disk, inserted>>
       ELSE IF ~ hm._db
       THEN /\ ret' = FALSE
            /\ error_msg' = Closed
            /\ call' = [Call("insert") EXCEPT !.hash = hash]
            /\ UNCHANGED <<disk, inserted>>
       ELSE /\ ret' = (fail < 0)
            /\ error_msg' = IF fail < 0 THEN "" ELSE IOError
            /\ call' = [Call("insert") EXCEPT
                            !.hash = hash,
                            !.puts = IF fail < 0 THEN _partitions(hm._max_error)
                                     ELSE fail + 1,
                            !.fault = fail]
            /\ disk' = [disk EXCEPT !.kv =
                            PutPartitionsIO(disk.kv, hm._hash_bits,
                                            hm._max_error, hash, 0, fail)]
            /\ inserted' = IF fail < 0 THEN Append(inserted, hash) ELSE inserted

\* get_candidates when the Get number `fail` (from 0, in the order of
\* Probes) returns an error: `if (status.ok())` skips its value
RECURSIVE GatherIO(_, _, _, _, _, _)
GatherIO(kv, probes, candidates, hash_bytes, n, fail) ==
    IF probes = <<>> THEN candidates
    ELSE LET status == IF n = fail THEN [ok |-> FALSE, value |-> <<>>]
                       ELSE DBGet(kv, Head(probes).key)
         IN  GatherIO(kv, Tail(probes),
                      IF status.ok
                      THEN add_hash_candidates(candidates, Head(probes).match,
                                               status.value, hash_bytes)
                      ELSE candidates,
                      hash_bytes, n + 1, fail)

\* lookup(query, result0, reduced_error) on a store whose Get number
\* `fail` returns an error
lookup_io(query, result0, reduced_error, fail) ==
    /\ hm.live
    /\ UNCHANGED <<disk, hm, deletes, inserted, made, phase>>
    /\ IF Len(query) # _hash_bytes(hm._hash_bits)
       THEN /\ ret' = FALSE
            /\ error_msg' = InvalidHashLength
            /\ result' = result0
            /\ call' = [Call("lookup") EXCEPT !.hash = query,
                            !.result0 = result0,
                            !.reduced_error = reduced_error]
       ELSE IF ~ hm._db
       THEN /\ ret' = FALSE
            /\ error_msg' = Closed
            /\ result' = result0
            /\ call' = [Call("lookup") EXCEPT !.hash = query,
                            !.result0 = result0,
                            !.reduced_error = reduced_error]
       ELSE /\ ret' = TRUE
            /\ error_msg' = ""
            /\ result' = result0 \o
                   Matches(GatherIO(disk.kv,
                                    Probes(hm._hash_bits, hm._max_error, query, 0),
                                    <<>>, _hash_bytes(hm._hash_bits), 0, fail),
                           hm._max_error, reduced_error, query)
            /\ call' = [Call("lookup") EXCEPT !.hash = query,
                            !.result0 = result0,
                            !.reduced_error = reduced_error,
                            !.gets = Len(Probes(hm._hash_bits, hm._max_error,
                                                query, 0)),
                            !.fault = fail]

NextIO ==
    \/ \E hash \in IOHashInputs,
          fail \in -1..(_partitions(hm._max_error) - 1) :
           insert_io(hash, fail)
    \/ \E query \in IOQueryInputs, result0 \in ResultInputs :
          \E fail \in -1..(Len(Probes(hm._hash_bits, hm._max_error, query, 0)) - 1) :
              lookup_io(query, result0, -1, fail)
    \/ close
    \/ open

SpecIO == InitIO /\ [][NextIO]_vars

\* ===================================================================
\* The hex codec: HmSearch::parse_hexhash applied to strings of char codes
\* ===================================================================
MaxHexLen == 3

\* '0', 'a', 'F', 'g', ' ', '-'
HexChars == {48, 97, 70, 103, 32, 45}
HexInputs == UNION {[1..n -> HexChars] : n \in 0..MaxHexLen}

\* isspace in the C locale
IsSpace(c) == c \in {32, 9, 10, 11, 12, 13}

\* the value of c as a base-16 digit, -1 if it is none
HexVal(c) ==
    IF c >= 48 /\ c <= 57 THEN c - 48
    ELSE IF c >= 97 /\ c <= 102 THEN c - 87
    ELSE IF c >= 65 /\ c <= 70 THEN c - 55
    ELSE -1

\* the base-16 digits of buf from position p on: [value, end]
RECURSIVE HexDigits(_, _, _)
HexDigits(buf, p, acc) ==
    IF HexVal(buf[p]) < 0 THEN [value |-> acc, end |-> p]
    ELSE HexDigits(buf, p + 1, acc * 16 + HexVal(buf[p]))

RECURSIVE SkipSpace(_, _)
SkipSpace(buf, p) == IF IsSpace(buf[p]) THEN SkipSpace(buf, p + 1) ELSE p

\* strtoul(buf, &err, 16) of the NUL-terminated buf, stored in a uint8_t:
\* white space is skipped, a sign is taken, then the digits; err is the
\* position after the last digit, or the start of buf when there is no digit.
\* (A "0x" prefix counts only before a digit, which char buf[3] cannot hold.)
strtoul16(buf) ==
    LET s == SkipSpace(buf, 1)
        d == IF buf[s] \in {43, 45} THEN s + 1 ELSE s
        digits == HexDigits(buf, d, 0)
    IN  [value |-> U8(IF buf[s] = 45 THEN 0 - digits.value ELSE digits.value),
         err |-> IF digits.end = d THEN 1 ELSE digits.end]

\* the loop of parse_hexhash from byte i on
RECURSIVE ParsePairs(_, _, _, _)
ParsePairs(hexhash, i, len, hash) ==
    IF i >= len THEN hash
    ELSE LET buf == <<hexhash[i * 2 + 1], hexhash[i * 2 + 2], 0>>
             r == strtoul16(buf)
         IN  IF buf[r.err] # 0 THEN <<>>
             ELSE ParsePairs(hexhash, i + 1, len, Append(hash, r.value))

parse_hexhash(hexhash) == ParsePairs(hexhash, 0, Len(hexhash) \div 2, <<>>)

InitHex ==
    \E hexhash \in HexInputs :
        /\ disk = NoDisk
        /\ hm = NoHandle
        /\ deletes = 0
        /\ ret = <<>>
        /\ error_msg = ""
        /\ result = <<>>
        /\ call = [Call("none") EXCEPT !.hash = hexhash]
        /\ inserted = <<>>
        /\ made = [hash_bits |-> 0, max_error |-> 0]
        /\ phase = "new"

ParseHexhash ==
    /\ call.op = "none"
    /\ call' = [call EXCEPT !.op = "parse_hexhash"]
    /\ ret' = parse_hexhash(call.hash)
    /\ UNCHANGED <<disk, hm, deletes, error_msg, result, inserted, made, phase>>

NextHex == ParseHexhash

SpecHex == InitHex /\ [][NextHex]_vars

\* ===================================================================
\* The key codec and candidate generation on an index holding one hash
\* ===================================================================
\* the (hash_bits, max_error) of one and two bytes that init accepts
CodecInputs ==
    {args \in {8, 16} \X (1..16) :
        InitBitsOK(args[1]) /\ InitErrorOK(args[1], args[2])}
CodecBytes == {0, 255, 165, 60}
CodecQueryBytes == {0, 1, 3, 15, 85, 255}
CodecHashInputs(hash_bits) == [1.._hash_bytes(hash_bits) -> CodecBytes]
CodecQueryInputs(hash_bits) ==
    IF hash_bits = 8 THEN [1..1 -> 0..255]
    ELSE [1.._hash_bytes(hash_bits) -> CodecQueryBytes]

\* init(hash_bits, max_error), open and one insert(hash) have succeeded
InitCodec ==
    \E args \in CodecInputs :
        \E hash \in CodecHashInputs(args[1]) :
            /\ disk = [exists |-> TRUE,
                       kv |-> PutPartitions(
                                  DBPut(DBPut(NoKV, KeyHB, FormatU(args[1])),
                                        KeyME, FormatU(args[2])),
                                  args[1], args[2], hash, 0)]
            /\ hm = [live |-> TRUE, _db |-> TRUE,
                     _hash_bits |-> args[1], _max_error |-> args[2]]
            /\ deletes = 0
            /\ ret = TRUE
            /\ error_msg = ""
            /\ result = <<>>
            /\ call = [Call("insert") EXCEPT !.hash = hash,
                                             !.puts = _partitions(args[2])]
            /\ inserted = <<hash>>
            /\ made = [hash_bits |-> args[1], max_error |-> args[2]]
            /\ phase = "first"

\* get_partition_key(hash, i, key) for i = 0 .. _partitions - 1, as the
\* loops of insert and get_candidates call it, and the keys of the Gets
\* get_candidates issues for `hash`: the keys, the returned psize, the probes
PartitionKeys(hash) ==
    /\ call.op = "insert"
    /\ call' = [Call("get_partition_key") EXCEPT !.hash = hash]
    /\ ret' = [keys |-> [n \in 1.._partitions(hm._max_error) |->
                            get_partition_key(hm._hash_bits, hm._max_error,
                                              hash, n - 1)],
               psize |-> [n \in 1.._partitions(hm._max_error) |->
                            PSize(hm._hash_bits, hm._max_error, n - 1)],
               probes |-> Probes(hm._hash_bits, hm._max_error, hash, 0)]
    /\ UNCHANGED <<disk, hm, deletes, error_msg, result, inserted, made, phase>>

\* get_candidates(query, candidates) on an empty candidate map
GetCandidates(query) ==
    /\ call.op = "insert"
    /\ call' = [Call("get_candidates") EXCEPT !.hash = query]
    /\ ret' = get_candidates(disk.kv, hm._hash_bits, hm._max_error, query)
    /\ UNCHANGED <<disk, hm, deletes, error_msg, result, inserted, made, phase>>

NextCodec ==
    \/ \E hash \in CodecHashInputs(hm._hash_bits) : PartitionKeys(hash)
    \/ \E query \in CodecQueryInputs(hm._hash_bits) : GetCandidates(query)

SpecCodec == InitCodec /\ [][NextCodec]_vars

\* ===================================================================
\* Properties
\* ===================================================================
Range(seq) == {seq[n] : n \in 1..Len(seq)}

\* the number of bit positions in which two hashes of one length differ
BitOf(x, j) == (x \div (2 ^ j)) % 2
Hamming(a, b) ==
    Cardinality({pos \in (1..Len(a)) \X (0..7) :
                    BitOf(a[pos[1]], pos[2]) # BitOf(b[pos[1]], pos[2])})

\* the last call was a lookup that returned true
LookupOK == call.op = "lookup" /\ ret
\* what that lookup pushed onto the caller's list
Added == SubSeq(result, Len(call.result0) + 1, Len(result))
Pair(hash, distance) == [hash |-> hash, distance |-> distance]

\* the hashes a slot value holds
Chunks(value, hash_bytes) ==
    {SubSeq(value, c * hash_bytes + 1, (c + 1) * hash_bytes) :
        c \in 0..((Len(value) \div hash_bytes) - 1)}

\* the inserted hashes that belong to the slot `key`, in insertion order
RECURSIVE SlotHistory(_, _, _)
SlotHistory(hashes, key, i) ==
    IF hashes = <<>> THEN <<>>
    ELSE (IF get_partition_key(made.hash_bits, made.max_error, Head(hashes), i) = key
          THEN Head(hashes) ELSE <<>>)
             \o SlotHistory(Tail(hashes), key, i)

\* C1 (as claimed): Recall.  After an uncapped lookup(Q) that returned true,
\* every inserted hash H with Hamming(Q, H) <= k is in the result with its
\* exact distance; and in the B=8, k=2 index holding 0xA5, 0xA4, 0xE5 the
\* lookup of 0xA5 returns exactly (0xA5,0), (0xA4,1), (0xE5,1).
Recall ==
    (LookupOK /\ call.reduced_error < 0) =>
        /\ \A n \in 1..Len(inserted) :
              Hamming(call.hash, inserted[n]) <= hm._max_error =>
                  Pair(inserted[n], Hamming(call.hash, inserted[n])) \in Range(Added)
        /\ (/\ made = [hash_bits |-> 8, max_error |-> 2]
            /\ inserted = << <<165>>, <<164>>, <<229>> >>
            /\ call.hash = <<165>>)
               => Range(Added) = {Pair(<<165>>, 0), Pair(<<164>>, 1), Pair(<<229>>, 1)}

\* C2 (as claimed): Slot invariant.  For every inserted hash H and every
\* partition i, the slot of (i, partition bits of H) holds a copy of H; and
\* each slot holds, appended in insertion order, every inserted hash that
\* belongs to it (an insert appends and removes nothing).
SlotInvariant ==
    \A n \in 1..Len(inserted) :
        \A i \in 0..(_partitions(made.max_error) - 1) :
            LET key == get_partition_key(made.hash_bits, made.max_error,
                                         inserted[n], i)
            IN  /\ key \in DOMAIN disk.kv
                /\ inserted[n] \in Chunks(disk.kv[key], _hash_bytes(made.hash_bits))
                /\ disk.kv[key] = SlotHistory(inserted, key, i)

\* C3: Soundness of lookup.  Every pair (H, d) a lookup(Q) adds has H among
\* the inserted hashes, d the exact number of differing bits of Q and H, and
\* d <= k; the table one_bits maps every byte to its number of 1-bits.
Soundness ==
    /\ \A x \in 0..255 :
          one_bits[x + 1] = Cardinality({j \in 0..7 : BitOf(x, j) = 1})
    /\ LookupOK =>
          \A n \in 1..Len(Added) :
              /\ Added[n].hash \in Range(inserted)
              /\ Added[n].distance = Hamming(call.hash, Added[n].hash)
              /\ Added[n].distance <= hm._max_error

\* a lookup returned a hash at a distance between 1 and k
SoundnessWitness ==
    /\ LookupOK
    /\ \E n \in 1..Len(Added) :
          Added[n].distance > 0 /\ Added[n].hash # call.hash

\* C4: Cap honored.  lookup(Q, m) with m >= 0 adds exactly the pairs of the
\* uncapped lookup(Q) with d <= m, so none with d > m; with m < 0 it adds
\* exactly the pairs of the uncapped lookup.
Uncapped ==
    Found(disk.kv, hm._hash_bits, hm._max_error, call.hash, -1)
WithinCap(pair) == call.reduced_error < 0 \/ pair.distance <= call.reduced_error
CapHonored ==
    LookupOK =>
        /\ Added = SelectSeq(Uncapped, WithinCap)
        /\ \A n \in 1..Len(Added) :
              call.reduced_error >= 0 => Added[n].distance <= call.reduced_error

\* a capped lookup dropped a pair the uncapped lookup returns
CapWitness ==
    /\ LookupOK
    /\ call.reduced_error >= 0
    /\ Len(Added) < Len(Uncapped)

\* C5: Deduplication.  A lookup into an empty result list returns no hash
\* twice, however often the hash was inserted.
Deduplication ==
    (LookupOK /\ call.result0 = <<>>) =>
        \A m, n \in 1..Len(result) :
            result[m].hash = result[n].hash => m = n

\* a hash inserted twice is returned by a lookup into an empty list
DeduplicationWitness ==
    /\ LookupOK
    /\ call.result0 = <<>>
    /\ \E m, n \in 1..Len(inserted) :
          /\ m < n
          /\ inserted[m] = inserted[n]
          /\ \E r \in 1..Len(result) : result[r].hash = inserted[n]

\* no hash was inserted twice
Distinct(seq) == \A m, n \in 1..Len(seq) : seq[m] = seq[n] => m = n

\* C6 (as claimed): Reopen persistence.  With distinct hashes inserted in
\* the first session and the index closed and opened again, lookup(H) of an
\* inserted H returns H at distance 0.
ReopenPersistence ==
    (/\ phase = "again"
     /\ LookupOK
     /\ call.reduced_error < 0
     /\ Distinct(inserted)
     /\ call.hash \in Range(inserted))
        => Pair(call.hash, 0) \in Range(Added)

\* text is the decimal numeral of n
RECURSIVE DecimalValue(_)
DecimalValue(text) ==
    IF text = <<>> THEN 0
    ELSE 10 * DecimalValue(SubSeq(text, 1, Len(text) - 1)) + (text[Len(text)] - 48)
IsDecimal(text, n) ==
    /\ Len(text) >= 1
    /\ \A d \in 1..Len(text) : text[d] \in 48..57
    /\ Len(text) > 1 => text[1] # 48
    /\ DecimalValue(text) = n

ArgsBadBits(c) == c.hash_bits = 0 \/ c.hash_bits % 8 # 0
ArgsBadError(c) ==
    c.max_error = 0 \/ c.max_error >= c.hash_bits \/ c.max_error > 518

\* the settings records hold B and k, and a handle carries them
SettingsKept ==
    /\ disk.exists =>
          /\ {KeyHB, KeyME} \subseteq DOMAIN disk.kv
          /\ IsDecimal(disk.kv[KeyHB], made.hash_bits)
          /\ IsDecimal(disk.kv[KeyME], made.max_error)
    /\ hm.live =>
          hm._hash_bits = made.hash_bits /\ hm._max_error = made.max_error
    /\ (call.op = "open" /\ ret) =>
          hm = [live |-> TRUE, _db |-> TRUE, _hash_bits |-> made.hash_bits,
                _max_error |-> made.max_error]

\* the last call was an init on a path that held the database already
FurtherInit == call.op = "init" /\ disk.exists /\ ~ ret

\* C7 (as claimed): Parameter immutability.  Once init(B, k) has succeeded
\* the settings records hold B and k, every open returns a handle carrying
\* (B, k), and every further init fails with StorageExists.
ParameterImmutability ==
    /\ SettingsKept
    /\ call.op = "init" =>
          ((ret /\ made = [hash_bits |-> call.hash_bits,
                           max_error |-> call.max_error])
           \/ (disk.exists => ~ ret /\ error_msg = StorageExists))

\* C7 (amended): as claimed, but a further init fails with StorageExists
\* only when its arguments are valid, and with the validation error
\* (InvalidHashBits, InvalidMaxError) otherwise; it never changes the store.
ParameterImmutabilityAmended ==
    /\ [](/\ SettingsKept
          /\ FurtherInit =>
                error_msg = (IF ArgsBadBits(call) THEN InvalidHashBits
                             ELSE IF ArgsBadError(call) THEN InvalidMaxError
                             ELSE StorageExists))
    /\ [][/\ disk.exists => disk'.exists /\ made' = made
          /\ (disk.exists /\ call'.op = "init") => ~ ret' /\ disk' = disk
         ]_vars

\* a further init with valid arguments failed on an index that holds hashes
\* and was opened twice
ParameterImmutabilityWitness ==
    /\ FurtherInit
    /\ error_msg = StorageExists
    /\ inserted # <<>>
    /\ phase \in {"again", "mixed"}
    /\ hm.live

\* C8 (as claimed): init fails with InvalidHashBits when B = 0 or
\* B mod 8 # 0, and with InvalidMaxError when k = 0, k >= B or k > 518,
\* creating no store; a store exists only with the settings of valid
\* arguments.
InitValidation ==
    /\ call.op = "init" =>
          /\ ArgsBadBits(call) => ~ ret /\ error_msg = InvalidHashBits
          /\ ArgsBadError(call) => ~ ret /\ error_msg = InvalidMaxError
    /\ disk.exists =>
          /\ ~ ArgsBadBits(made) /\ ~ ArgsBadError(made)
          /\ IsDecimal(disk.kv[KeyHB], made.hash_bits)
          /\ IsDecimal(disk.kv[KeyME], made.max_error)

\* C8 (amended): init fails with InvalidHashBits when B = 0 or B mod 8 # 0;
\* when B is valid it fails with InvalidMaxError when k = 0, k >= B or
\* k > 518; in both cases the store is unchanged.  For every other (B, k)
\* on a path without a store init succeeds and writes exactly _hb = str(B)
\* and _me = str(k).
InitValidationAmended ==
    [][call'.op = "init" =>
          IF ArgsBadBits(call')
          THEN ~ ret' /\ error_msg' = InvalidHashBits /\ disk' = disk
          ELSE IF ArgsBadError(call')
          THEN ~ ret' /\ error_msg' = InvalidMaxError /\ disk' = disk
          ELSE ~ disk.exists =>
                  /\ ret'
                  /\ error_msg' = ""
                  /\ disk'.exists
                  /\ DOMAIN disk'.kv = {KeyHB, KeyME}
                  /\ IsDecimal(disk'.kv[KeyHB], call'.hash_bits)
                  /\ IsDecimal(disk'.kv[KeyME], call'.max_error)
     ]_vars

\* an init with k > 518 and k < B was refused and no store exists
InitValidationWitness ==
    /\ call.op = "init"
    /\ ~ ret
    /\ error_msg = InvalidMaxError
    /\ call.max_error > 518
    /\ call.max_error < call.hash_bits
    /\ ~ disk.exists

\* the number of bytes of a hash of n bits
CeilBytes(n) == CHOOSE c \in 0..n : 8 * c >= n /\ 8 * (c - 1) < n

\* C9: Invalid hash length.  insert(hash) with len(hash) # ceil(B/8) fails
\* with InvalidHashLength and leaves the store unchanged; lookup(query) with
\* such a length fails with the same error and adds nothing to the result.
InvalidLength ==
    [][/\ (call'.op = "insert" /\ Len(call'.hash) # CeilBytes(hm._hash_bits)) =>
              /\ ~ ret'
              /\ error_msg' = InvalidHashLength
              /\ disk' = disk
              /\ inserted' = inserted
       /\ (call'.op = "lookup" /\ Len(call'.hash) # CeilBytes(hm._hash_bits)) =>
              /\ ~ ret'
              /\ error_msg' = InvalidHashLength
              /\ result' = call'.result0
              /\ disk' = disk
      ]_vars

\* an insert of a hash of the wrong length failed on an open index that
\* holds hashes
InvalidLengthWitness ==
    /\ call.op = "insert"
    /\ Len(call.hash) # CeilBytes(hm._hash_bits)
    /\ error_msg = InvalidHashLength
    /\ hm._db
    /\ inserted # <<>>

\* a DB object that was opened is held open or was deleted exactly once
ReleasedOnce ==
    /\ deletes <= 1
    /\ phase # "new" => (deletes = 1 <=> ~ hm._db)

\* C10 (as claimed): Close lifecycle.  close releases the store handle
\* exactly once, and every insert or lookup after a close fails with the
\* Closed error, reads and writes nothing and returns no results.
CloseLifecycle ==
    /\ ReleasedOnce
    /\ (call.op \in {"insert", "lookup"} /\ ~ hm._db) =>
          /\ ~ ret
          /\ error_msg = Closed
          /\ call.gets = 0 /\ call.puts = 0
          /\ call.op = "lookup" => result = call.result0

\* C10 (amended): as claimed, but an insert or lookup after a close fails
\* with the Closed error only when the hash has ceil(B/8) bytes, and with
\* InvalidHashLength otherwise; a further close succeeds and does nothing.
CloseLifecycleAmended ==
    /\ [](/\ ReleasedOnce
          /\ (call.op \in {"insert", "lookup"} /\ ~ hm._db) =>
                /\ ~ ret
                /\ error_msg = (IF Len(call.hash) = CeilBytes(hm._hash_bits)
                                THEN Closed ELSE InvalidHashLength)
                /\ call.gets = 0 /\ call.puts = 0
                /\ call.op = "lookup" => result = call.result0)
    /\ [][/\ (call'.op = "close" /\ ~ hm._db) =>
                ret' /\ hm' = hm /\ deletes' = deletes /\ disk' = disk
          /\ (call'.op = "close" /\ hm._db) =>
                ret' /\ ~ hm'._db /\ deletes' = deletes + 1 /\ disk' = disk
          /\ (call'.op \in {"insert", "lookup"} /\ ~ hm._db) =>
                disk' = disk /\ inserted' = inserted /\ hm' = hm
         ]_vars

\* a lookup of a hash of the right length failed with Closed on an index
\* that holds hashes
CloseLifecycleWitness ==
    /\ call.op = "lookup"
    /\ error_msg = Closed
    /\ deletes = 1
    /\ inserted # <<>>

\* C11 (as claimed): Lookup error propagation.  When a Get issued during a
\* lookup fails with an error other than NotFound, the lookup returns false,
\* reports the error, and leaves the caller's result list as it was.
LookupErrorPropagation ==
    (call.op = "lookup" /\ call.fault >= 0) =>
        /\ ~ ret
        /\ error_msg = IOError
        /\ result = call.result0

\* C12: Store well-formedness.  In every state reached by init and any
\* sequence of inserts, each key of the store is _hb or _me, or a partition
\* key: first byte 'P', second byte a partition index in [0,P), different
\* from both settings keys, its value a whole number of ceil(B/8)-byte hashes.
StoreWellFormed ==
    \A key \in DOMAIN disk.kv :
        \/ key \in {KeyHB, KeyME}
        \/ /\ Len(key) >= 2
           /\ key[1] = 80
           /\ key[2] \in 0..(((made.max_error + 3) \div 2) - 1)
           /\ key \notin {KeyHB, KeyME}
           /\ Len(disk.kv[key]) % CeilBytes(made.hash_bits) = 0

\* a store holding the settings and the partition slots of several inserts
StoreWellFormedWitness ==
    /\ Len(inserted) >= 2
    /\ {KeyHB, KeyME} \subseteq DOMAIN disk.kv
    /\ \E key \in DOMAIN disk.kv :
          key[1] = 80 /\ key[2] = ((made.max_error + 3) \div 2) - 1
                     /\ Len(disk.kv[key]) > 0

\* C13 (as claimed): Hex parsing rejects malformed input.  For every string
\* of odd length and every string holding a character that is not a
\* hexadecimal digit, parse_hexhash returns the empty hash.
HexRejectsMalformed ==
    (/\ call.op = "parse_hexhash"
     /\ \/ Len(call.hash) % 2 = 1
        \/ \E n \in 1..Len(call.hash) :
              call.hash[n] \notin (48..57) \cup (97..102) \cup (65..70))
        => ret = <<>>

\* the validity rule in the words of the specification
RuleAccepts(k, c) ==
    IF k % 2 = 1
    THEN c.matches >= 3
         \/ (c.matches = 2 /\ (c.first_match = 0 \/ c.second_match = 0))
    ELSE c.matches >= 2 \/ (c.matches = 1 /\ c.first_match = 0)

\* C14: The validity rule has no false negatives.  With H in each of its P
\* partition slots, for every query Q with Hamming(Q, H) <= k the candidate
\* map built for Q has an entry for H, and its tally passes the validity rule
\* (k odd: matches >= 3, or 2 with a tier-0 match; k even: matches >= 2, or
\* 1 with first_match = 0), which is what valid_candidate computes.
NoFalseNegative ==
    (/\ call.op = "get_candidates"
     /\ Hamming(call.hash, inserted[1]) <= hm._max_error)
        => \E n \in 1..Len(ret) :
              /\ ret[n].hash = inserted[1]
              /\ RuleAccepts(hm._max_error, ret[n])
              /\ valid_candidate(hm._max_error, ret[n])

\* a hash at distance k from the query, accepted with a tally of two matches
\* of which only the second is exact
NoFalseNegativeWitness ==
    /\ call.op = "get_candidates"
    /\ Hamming(call.hash, inserted[1]) = hm._max_error
    /\ hm._max_error % 2 = 1
    /\ \E n \in 1..Len(ret) :
          /\ ret[n].hash = inserted[1]
          /\ ret[n].matches = 2
          /\ ret[n].first_match = 1
          /\ ret[n].second_match = 0

\* ceil(a / b) for a >= 0, b > 0
CeilDiv(a, b) == CHOOSE c \in 0..a : c * b >= a /\ (c - 1) * b < a
\* the smaller of two integers
Min(a, b) == IF a < b THEN a ELSE b
\* the last call computed the partition keys of call.hash
KeysOK == call.op = "get_partition_key"

\* C15 (as claimed): Partition geometry.  For every (B,k) that init accepts,
\* with P = floor((k+3)/2) and b = ceil(B/P), every partition i in [0,P) has
\* psize_i = min(b, B - i*b) with 0 <= psize_i <= b, only the last partition
\* has fewer than b bits, every range [i*b, i*b + psize_i) lies inside [0,B),
\* and the ranges cover each of the B bits exactly once.
PartitionGeometry ==
    KeysOK =>
        LET B == hm._hash_bits
            P == (hm._max_error + 3) \div 2
            b == CeilDiv(B, P)
            psize(i) == ret.psize[i + 1]
            range(i) == (i * b)..(i * b + psize(i) - 1)
        IN  /\ Len(ret.psize) = P
            /\ \A i \in 0..(P - 1) :
                  /\ psize(i) = Min(b, B - i * b)
                  /\ 0 <= psize(i) /\ psize(i) <= b
                  /\ psize(i) < b => i = P - 1
                  /\ range(i) \subseteq 0..(B - 1)
            /\ \A t \in 0..(B - 1) :
                  Cardinality({i \in 0..(P - 1) : t \in range(i)}) = 1

\* bit t of a hash, counted from the most significant bit of byte 0
HashBit(hash, t) == BitOf(hash[t \div 8 + 1], 7 - (t % 8))
\* the hash bits of partition i: [i*b, i*b + b) within [0,B)
PartitionBitSet(B, k, i) ==
    LET b == CeilDiv(B, (k + 3) \div 2)
    IN  {t \in 0..(B - 1) : i * b <= t /\ t < i * b + b}

\* C16: Key codec.  For every partition i the key of a hash is 'P', i, then
\* bytes in which each bit of partition i sits at its bit position modulo 8,
\* in the byte counted from the partition's first hash byte, and every other
\* bit is zero; so two hashes have the same key of partition i exactly when
\* they agree on every bit of partition i.
KeyCodec ==
    KeysOK =>
        LET B == hm._hash_bits
            k == hm._max_error
            P == (k + 3) \div 2
            b == CeilDiv(B, P)
        IN  \A i \in 0..(P - 1) :
               LET key == ret.keys[i + 1]
                   pbyte == (i * b) \div 8
                   bits == PartitionBitSet(B, k, i)
               IN  /\ key[1] = 80 /\ key[2] = i
                   /\ \A t \in bits : t \div 8 - pbyte + 3 <= Len(key)
                   /\ \A j \in 3..Len(key), pos \in 0..7 :
                         BitOf(key[j], 7 - pos) =
                             IF 8 * (pbyte + j - 3) + pos \in bits
                             THEN HashBit(call.hash, 8 * (pbyte + j - 3) + pos)
                             ELSE 0
                   /\ \A H2 \in CodecHashInputs(B) :
                         (get_partition_key(B, k, H2, i) = key)
                             <=> \A t \in bits :
                                    HashBit(H2, t) = HashBit(call.hash, t)

\* a partition that spans two hash bytes, with 1-bits of the hash in both,
\* whose key another hash shares
KeyCodecWitness ==
    /\ KeysOK
    /\ \E i \in 0..(Len(ret.keys) - 1) :
          /\ \E t1, t2 \in PartitionBitSet(hm._hash_bits, hm._max_error, i) :
                /\ t1 \div 8 # t2 \div 8
                /\ HashBit(call.hash, t1) = 1
                /\ HashBit(call.hash, t2) = 1
          /\ \E H2 \in CodecHashInputs(hm._hash_bits) :
                /\ H2 # call.hash
                /\ get_partition_key(hm._hash_bits, hm._max_error, H2, i)
                       = ret.keys[i + 1]

\* C17 (as claimed): Reserved trailing key byte.  For every valid (B,k),
\* every hash and every partition the last byte of the partition key is
\* 0x00, in the keys insert writes and in the keys lookup probes.
TrailingByteZero ==
    KeysOK =>
        /\ \A n \in 1..Len(ret.keys) : ret.keys[n][Len(ret.keys[n])] = 0
        /\ \A n \in 1..Len(ret.probes) :
              ret.probes[n].key[Len(ret.probes[n].key)] = 0

\* C17 (amended): the key has 2 + ceil(b/8) + 1 bytes, and its last byte
\* is the place of the partition bits that lie in hash byte
\* (i*b div 8) + ceil(b/8): a built key holds the hash's bits there and a
\* probed key at most such bits; every other bit of the byte is zero, so the
\* byte is 0x00 for a partition that has no bit in that hash byte.
TrailingByteAmended ==
    KeysOK =>
        LET B == hm._hash_bits
            k == hm._max_error
            b == CeilDiv(B, (k + 3) \div 2)
            L == CeilDiv(b, 8) + 1
            t(i, pos) == 8 * ((i * b) \div 8 + L - 1) + pos
        IN  /\ \A n \in 1..Len(ret.keys) :
                  /\ Len(ret.keys[n]) = 2 + L
                  /\ \A pos \in 0..7 :
                        BitOf(ret.keys[n][2 + L], 7 - pos) =
                            IF t(n - 1, pos) \in PartitionBitSet(B, k, n - 1)
                            THEN HashBit(call.hash, t(n - 1, pos))
                            ELSE 0
            /\ \A n \in 1..Len(ret.probes) :
                  LET key == ret.probes[n].key
                  IN  /\ Len(key) = 2 + L
                      /\ \A pos \in 0..7 :
                            BitOf(key[2 + L], 7 - pos) = 1
                                => t(key[2], pos) \in PartitionBitSet(B, k, key[2])

\* a built key and a probed key whose last byte is not zero
TrailingByteWitness ==
    /\ KeysOK
    /\ \E n \in 1..Len(ret.keys) : ret.keys[n][Len(ret.keys[n])] # 0
    /\ \E n \in 1..Len(ret.probes) :
          /\ ret.probes[n].match = 1
          /\ ret.probes[n].key[Len(ret.probes[n].key)] # 0

\* the <<byte, bit>> places in which two keys of one length differ
KeyDiff(k1, k2) ==
    {pos \in (1..Len(k1)) \X (0..7) :
        BitOf(k1[pos[1]], pos[2]) # BitOf(k2[pos[1]], pos[2])}
\* the number of Gets due for the partitions below i: one exact, one per bit
RECURSIVE ProbesBefore(_, _, _)
ProbesBefore(B, k, i) ==
    IF i = 0 THEN 0
    ELSE ProbesBefore(B, k, i - 1) + 1
             + Cardinality(PartitionBitSet(B, k, i - 1))

\* C18: Probe coverage and order.  The Gets of a lookup go through the
\* partitions 0..P-1 in order; for partition i the first Get has the exact
\* partition key of the query, and it is followed by one Get for each bit of
\* partition i, in the order of the bits, whose key is the exact key with
\* that one bit flipped, and no other bit: each flip is undone before the
\* next probe.
ProbeOrder ==
    KeysOK =>
        LET B == hm._hash_bits
            k == hm._max_error
            P == (k + 3) \div 2
            b == CeilDiv(B, P)
        IN  /\ Len(ret.probes) = ProbesBefore(B, k, P)
            /\ \A i \in 0..(P - 1) :
                  LET first == ProbesBefore(B, k, i) + 1
                      key == ret.keys[i + 1]
                  IN  /\ ret.probes[first] = [key |-> key, match |-> 0]
                      /\ \A n \in 1..Cardinality(PartitionBitSet(B, k, i)) :
                            LET t == i * b + n - 1
                                probe == ret.probes[first + n]
                            IN  /\ probe.match = 1
                                /\ Len(probe.key) = Len(key)
                                /\ KeyDiff(probe.key, key) =
                                       {<<t \div 8 - (i * b) \div 8 + 3,
                                          7 - (t % 8)>>}

\* probes of three or more partitions, one of them flipping a bit of the
\* second key byte of a query that has a 1-bit
ProbeOrderWitness ==
    /\ KeysOK
    /\ Len(ret.keys) >= 3
    /\ call.hash[1] # 0
    /\ \E n \in 1..Len(ret.probes) :
          /\ ret.probes[n].match = 1
          /\ \E pos \in 0..7 :
                <<4, pos>> \in KeyDiff(ret.probes[n].key,
                                       ret.keys[ret.probes[n].key[2] + 1])

\* the slot keys of partitions lo..hi of the hash of the coming call
SlotKeys(hash, lo, hi) ==
    {get_partition_key(hm._hash_bits, hm._max_error, hash, i) : i \in lo..hi}

\* C19: Insert write order and partial failure.  An insert(H) whose Puts all
\* succeed returns true with H in the slots of partitions 0..P-1.  If the Put
\* of partition j fails, insert has issued j+1 Puts, returns false with the
\* store's error, the slots of partitions 0..j-1 hold H, and every other key
\* of the store, the slots of partitions j..P-1 among them, is as before.
InsertPartialFailure ==
    [][(/\ call'.op = "insert"
        /\ Len(call'.hash) = CeilBytes(hm._hash_bits)
        /\ hm._db) =>
           LET H == call'.hash
               P == (hm._max_error + 3) \div 2
               j == IF call'.fault < 0 THEN P ELSE call'.fault
               same(key) == /\ key \in DOMAIN disk.kv <=> key \in DOMAIN disk'.kv
                            /\ key \in DOMAIN disk.kv => disk'.kv[key] = disk.kv[key]
           IN  /\ ret' = (call'.fault < 0)
               /\ error_msg' = IF call'.fault < 0 THEN "" ELSE IOError
               /\ call'.puts = IF call'.fault < 0 THEN P ELSE j + 1
               /\ \A key \in SlotKeys(H, 0, j - 1) :
                     key \in DOMAIN disk'.kv /\ disk'.kv[key] = H
               /\ \A key \in SlotKeys(H, j, P - 1) : same(key)
               /\ \A key \in ((DOMAIN disk.kv) \cup (DOMAIN disk'.kv))
                                 \ SlotKeys(H, 0, j - 1) : same(key)
      ]_vars

\* an insert failed at a partition above 0: the slot of partition 0 holds
\* its hash, the slot of the failed partition still holds another hash
InsertPartialFailureWitness ==
    /\ call.op = "insert"
    /\ call.fault >= 1
    /\ ~ ret
    /\ error_msg = IOError
    /\ DBGet(disk.kv, get_partition_key(hm._hash_bits, hm._max_error,
                                         call.hash, 0)).value = call.hash
    /\ LET at == DBGet(disk.kv, get_partition_key(hm._hash_bits, hm._max_error,
                                                   call.hash, call.fault))
       IN  at.ok /\ at.value # call.hash

====
